---------------------------- MODULE Spec2Model ----------------------------
(***************************************************************************)
(* Model of src/utilities/coerceInputValue.js: coerceInputValue, its       *)
(* default error callback and the recursive coerceInputValueImpl.          *)
(*                                                                         *)
(* JavaScript values are tagged records; undefined ("absent") and null     *)
(* are two different values.  An object is the sequence of its own         *)
(* enumerable entries in Object.keys order.  A call's outcome records the  *)
(* returned value, whether the call was abandoned by a raising onError,    *)
(* the onError invocations in order, and the trace of the steps taken.     *)
(***************************************************************************)
EXTENDS Integers, Sequences, FiniteSets, TLC

VARIABLES inputValue, type, pc, collected, defaulted, recoerced

vars == <<inputValue, type, pc, collected, defaulted, recoerced>>

(***************************************************************************)
(* Bounds of the explored inputs.                                          *)
(***************************************************************************)
MaxLen == 2
MaxKeys == 2
MaxWrap == 2

(***************************************************************************)
(* Runtime values.                                                         *)
(***************************************************************************)
Undef == [k |-> "undefined"]
Null == [k |-> "null"]
Num(n) == [k |-> "number", n |-> n]
Str(s) == [k |-> "string", s |-> s]
Arr(items) == [k |-> "array", items |-> items]
Entry(key, val) == [key |-> key, val |-> val]
Obj(entries) == [k |-> "object", entries |-> entries]

\* What a call that was unwound by a raise "returns": nothing at all.
Abandoned == [k |-> "no value: call abandoned"]

(***************************************************************************)
(* Input types.                                                            *)
(***************************************************************************)
GraphQLNonNull(t) == [kind |-> "NonNull", ofType |-> t]
GraphQLList(t) == [kind |-> "List", ofType |-> t]
GraphQLScalarType(name) == [kind |-> "Scalar", name |-> name]
GraphQLEnumType(name, values) == [kind |-> "Enum", name |-> name, values |-> values]
GraphQLInputObjectType(name, fields) ==
    [kind |-> "InputObject", name |-> name, fields |-> fields]
EnumValue(name, value) == [name |-> name, value |-> value]
\* defaultValue = Undef: the field declares no default
InputField(name, t, defaultValue) ==
    [name |-> name, type |-> t, defaultValue |-> defaultValue]

isNonNullType(t) == t.kind = "NonNull"
isListType(t) == t.kind = "List"
isInputObjectType(t) == t.kind = "InputObject"
isScalarType(t) == t.kind = "Scalar"
isEnumType(t) == t.kind = "Enum"

RECURSIVE inspect(_)
\* inspect(type) is the type's toString(): "Int", "[Int]", "Int!"
inspect(t) ==
    IF isNonNullType(t) THEN inspect(t.ofType) \o "!"
    ELSE IF isListType(t) THEN "[" \o inspect(t.ofType) \o "]"
    ELSE t.name

(***************************************************************************)
(* Boundary predicates and accessors on values.                            *)
(***************************************************************************)
\* `inputValue == null` holds of null and of undefined only
IsNullish(v) == v = Null \/ v = Undef

isCollection(v) == v.k = "array"

\* typeof value === 'object' && value !== null: arrays are object-like
isObjectLike(v) == v.k = "object" \/ v.k = "array"

\* Object.keys(value) of an object-like value; an array's keys are its indices
ObjectKeys(v) ==
    IF v.k = "array" THEN [i \in 1..Len(v.items) |-> ToString(i - 1)]
    ELSE [i \in 1..Len(v.entries) |-> v.entries[i].key]

\* value[name]: undefined when the object-like value has no such own key
GetProp(v, name) ==
    IF v.k = "array"
      THEN IF \E i \in 1..Len(v.items) : ToString(i - 1) = name
             THEN v.items[CHOOSE i \in 1..Len(v.items) : ToString(i - 1) = name]
             ELSE Undef
      ELSE IF \E i \in 1..Len(v.entries) : v.entries[i].key = name
             THEN v.entries[CHOOSE i \in 1..Len(v.entries) : v.entries[i].key = name].val
             ELSE Undef

(***************************************************************************)
(* Paths.  A path is the sequence of its keys from the root; a key is a    *)
(* field name (a string value) or a list index (a number value).           *)
(***************************************************************************)
addPath(path, key) == Append(path, key)
pathToArray(path) == path

(***************************************************************************)
(* Errors, reports and trace events.                                       *)
(***************************************************************************)
NoError == [message |-> <<>>, originalError |-> <<>>, prefix |-> <<>>]
\* new GraphQLError(message, ..., originalError); originalError <<>> when none
GraphQLError(message, originalError) ==
    [message |-> message, originalError |-> originalError, prefix |-> <<>>]
\* a plain Error thrown by a scalar's parseValue
PlainError(message) == [plain |-> TRUE, message |-> message]

ErrorReport(path, invalidValue, error) ==
    [path |-> path, invalidValue |-> invalidValue, error |-> error]

\* The trace of a call: what it did, in order.
\* coerceInputValueImpl(value, t, onError, path) was entered
EnterEvent(path, t, value) == [op |-> "coerce", at |-> path, type |-> t, value |-> value]
\* that call returned value
ReturnEvent(path, t, value) == [op |-> "return", at |-> path, type |-> t, value |-> value]
\* type.parseValue(value) was called
ParseEvent(path, t, value) == [op |-> "parseValue", at |-> path, type |-> t, value |-> value]
\* inputValue[field.name] was read
FieldEvent(path, name) == [op |-> "field", at |-> path, name |-> name]
\* onError(path, invalidValue, error) was called
OnErrorEvent(path, invalidValue, error) ==
    [op |-> "onError", at |-> path, value |-> invalidValue, error |-> error]

(***************************************************************************)
(* The error callbacks.  A callback's effect is the report it receives,    *)
(* whether it raises, and the trace event of its invocation.               *)
(***************************************************************************)
\* a caller's collect-all callback: keeps the report and returns normally
CollectOnError(path, invalidValue, error) ==
    [raised |-> FALSE,
     errs |-> <<ErrorReport(path, invalidValue, error)>>,
     trace |-> <<OnErrorEvent(path, invalidValue, error)>>]

\* defaultOnError that prefixes the message and returns
DefaultOnErrorNoThrow(path, invalidValue, error) ==
    LET errorPrefix ==
            IF Len(path) > 0
              THEN <<[invalidValue |-> invalidValue, at |-> path]>>
              ELSE <<[invalidValue |-> invalidValue]>>
        thrown == [error EXCEPT !.prefix = errorPrefix]
    IN  [raised |-> FALSE,
         errs |-> <<ErrorReport(path, invalidValue, thrown)>>,
         trace |-> <<OnErrorEvent(path, invalidValue, error)>>]

\* the default callback: prefixes the message and throws the error
defaultOnError(path, invalidValue, error) ==
    LET errorPrefix ==
            IF Len(path) > 0
              THEN <<[invalidValue |-> invalidValue, at |-> path]>>
              ELSE <<[invalidValue |-> invalidValue]>>
        thrown == [error EXCEPT !.prefix = errorPrefix]
    IN  [raised |-> TRUE,
         errs |-> <<ErrorReport(path, invalidValue, thrown)>>,
         trace |-> <<OnErrorEvent(path, invalidValue, error)>>]

\* onError(path, invalidValue, error) for the callback the caller passed
CallOnError(onError, path, invalidValue, error) ==
    IF onError = "defaultOnError"
      THEN defaultOnError(path, invalidValue, error)
      ELSE CollectOnError(path, invalidValue, error)

(***************************************************************************)
(* Outcomes of a (partial) call.                                           *)
(***************************************************************************)
Returned(v) == [res |-> v, raised |-> FALSE, errs |-> <<>>, trace |-> <<>>]

\* `onError(...); return v;` where r is the callback's effect
ReturnAfter(r, v) ==
    [res |-> IF r.raised THEN Abandoned ELSE v,
     raised |-> r.raised, errs |-> r.errs, trace |-> r.trace]

\* outcome b, reached after the steps of a
After(a, b) ==
    [res |-> b.res, raised |-> b.raised,
     errs |-> a.errs \o b.errs, trace |-> a.trace \o b.trace]

\* coercedValue[key] = val
SetKey(obj, key, val) ==
    IF \E i \in 1..Len(obj.entries) : obj.entries[i].key = key
      THEN Obj([i \in 1..Len(obj.entries) |->
                 IF obj.entries[i].key = key THEN Entry(key, val) ELSE obj.entries[i]])
      ELSE Obj(Append(obj.entries, Entry(key, val)))

(***************************************************************************)
(* The scalar of the explored schema: parseValue of "Int".  It returns a   *)
(* number for a number and for a numeric string, null for "nil" (and null  *)
(* and undefined unchanged, were it ever given them), undefined for any    *)
(* other string but "gql" and "err", throws a GraphQLError for "gql", and  *)
(* throws a plain Error for "err" and for every array and object.          *)
(***************************************************************************)
ParseReturn(v) == [threw |-> FALSE, value |-> v, error |-> NoError]
ParseThrow(e) == [threw |-> TRUE, value |-> Undef, error |-> e]

CustomError == GraphQLError(<<"Int cannot represent value">>, <<>>)

ParseValue(name, v) ==
    IF IsNullish(v) \/ v.k = "number" THEN ParseReturn(v)
    ELSE IF v.k = "string" THEN
        IF v.s = "1" THEN ParseReturn(Num(1))
        ELSE IF v.s = "nil" THEN ParseReturn(Null)
        ELSE IF v.s = "gql" THEN ParseThrow(CustomError)
        ELSE IF v.s = "err" THEN ParseThrow(PlainError("not a leaf"))
        ELSE ParseReturn(Undef)
    ELSE ParseThrow(PlainError("not a leaf"))

\* error instanceof GraphQLError
IsGraphQLError(e) == "prefix" \in DOMAIN e

(***************************************************************************)
(* coerceInputValueImpl, one operator per arm of its dispatch.             *)
(***************************************************************************)
RECURSIVE coerceInputValueImpl(_, _, _, _)
RECURSIVE ForEachItem(_, _, _, _, _, _)
RECURSIVE ForEachField(_, _, _, _, _, _)
RECURSIVE ForEachKey(_, _, _, _, _, _, _)

\* CoerceNonNull with `inputValue !== null` for `inputValue != null`
CoerceNonNullStrict(value, t, onError, path) ==
    IF value # Null
      THEN coerceInputValueImpl(value, t.ofType, onError, path)
      ELSE ReturnAfter(
             CallOnError(onError, pathToArray(path), value,
                 GraphQLError(<<"Expected non-nullable type % not to be null.",
                                inspect(t)>>, <<>>)),
             Undef)

\* if (isNonNullType(type)) { ... }
CoerceNonNull(value, t, onError, path) ==
    IF ~IsNullish(value)
      THEN coerceInputValueImpl(value, t.ofType, onError, path)
      ELSE ReturnAfter(
             CallOnError(onError, pathToArray(path), value,
                 GraphQLError(<<"Expected non-nullable type % not to be null.",
                                inspect(t)>>, <<>>)),
             Undef)

\* CoerceNull with a bare `return;`
CoerceNullAbsent(value, t, onError, path) == Returned(Undef)

\* if (inputValue == null) return null;
CoerceNull(value, t, onError, path) == Returned(Null)

\* PushItem that pushes only the results that are not absent
PushItemSkipAbsent(items, i, itemType, onError, path, acc) ==
    LET o == coerceInputValueImpl(items[i], itemType, onError,
                                  addPath(path, Num(i - 1)))
    IN  IF o.raised THEN After(acc, o)
        ELSE IF o.res = Undef THEN After(acc, [o EXCEPT !.res = acc.res])
        ELSE After(acc, [o EXCEPT !.res = Arr(Append(acc.res.items, o.res))])

\* one turn of forEach(inputValue, (itemValue, index) => coercedValue.push(...))
PushItem(items, i, itemType, onError, path, acc) ==
    LET o == coerceInputValueImpl(items[i], itemType, onError,
                                  addPath(path, Num(i - 1)))
    IN  IF o.raised THEN After(acc, o)
        ELSE After(acc, [o EXCEPT !.res = Arr(Append(acc.res.items, o.res))])

\* ForEachItem that visits the elements from the last to the first
ForEachItemBackwards(items, i, itemType, onError, path, acc) ==
    IF acc.raised \/ i > Len(items) THEN acc
    ELSE ForEachItem(items, i + 1, itemType, onError, path,
                     PushItem(items, Len(items) + 1 - i, itemType, onError, path, acc))

ForEachItem(items, i, itemType, onError, path, acc) ==
    IF acc.raised \/ i > Len(items) THEN acc
    ELSE ForEachItem(items, i + 1, itemType, onError, path,
                     PushItem(items, i, itemType, onError, path, acc))

\* ListOfOne that coerces the value as element 0
ListOfOneIndexed(value, itemType, onError, path) ==
    LET o == coerceInputValueImpl(value, itemType, onError, addPath(path, Num(0)))
    IN  IF o.raised THEN o ELSE [o EXCEPT !.res = Arr(<<o.res>>)]

\* Lists accept a non-list value as a list of one.
ListOfOne(value, itemType, onError, path) ==
    LET o == coerceInputValueImpl(value, itemType, onError, path)
    IN  IF o.raised THEN o ELSE [o EXCEPT !.res = Arr(<<o.res>>)]

\* if (isListType(type)) { ... }
CoerceList(value, t, onError, path) ==
    LET itemType == t.ofType
    IN  IF isCollection(value)
          THEN ForEachItem(value.items, 1, itemType, onError, path,
                           Returned(Arr(<<>>)))
          ELSE ListOfOne(value, itemType, onError, path)

\* CoerceField that tests the field's type before its default
CoerceFieldRequiredFirst(field, value, onError, path, acc) ==
    LET fieldValue == GetProp(value, field.name)
        read == [Returned(acc.res) EXCEPT
                   !.trace = <<FieldEvent(path, field.name)>>]
        step ==
          IF fieldValue = Undef THEN
            IF isNonNullType(field.type)
              THEN After(read, ReturnAfter(
                     CallOnError(onError, pathToArray(path), value,
                         GraphQLError(<<"Field % of required type % was not provided.",
                                        field.name, inspect(field.type)>>, <<>>)),
                     acc.res))
            ELSE IF field.defaultValue # Undef
              THEN After(read, Returned(SetKey(acc.res, field.name,
                                               field.defaultValue)))
            ELSE read
          ELSE
            LET o == coerceInputValueImpl(fieldValue, field.type, onError,
                                          addPath(path, Str(field.name)))
            IN  IF o.raised THEN After(read, o)
                ELSE After(read, [o EXCEPT !.res =
                                    SetKey(acc.res, field.name, o.res)])
    IN  After(acc, step)

\* the body of `for (const field of objectValues(fieldDefs))` for one field
CoerceField(field, value, onError, path, acc) ==
    LET fieldValue == GetProp(value, field.name)
        read == [Returned(acc.res) EXCEPT
                   !.trace = <<FieldEvent(path, field.name)>>]
        step ==
          IF fieldValue = Undef THEN
            IF field.defaultValue # Undef
              THEN After(read, Returned(SetKey(acc.res, field.name,
                                               field.defaultValue)))
            ELSE IF isNonNullType(field.type)
              THEN After(read, ReturnAfter(
                     CallOnError(onError, pathToArray(path), value,
                         GraphQLError(<<"Field % of required type % was not provided.",
                                        field.name, inspect(field.type)>>, <<>>)),
                     acc.res))
            ELSE read
          ELSE
            LET o == coerceInputValueImpl(fieldValue, field.type, onError,
                                          addPath(path, Str(field.name)))
            IN  IF o.raised THEN After(read, o)
                ELSE After(read, [o EXCEPT !.res =
                                    SetKey(acc.res, field.name, o.res)])
    IN  After(acc, step)

ForEachField(fieldDefs, i, value, onError, path, acc) ==
    IF acc.raised \/ i > Len(fieldDefs) THEN acc
    ELSE ForEachField(fieldDefs, i + 1, value, onError, path,
                      CoerceField(fieldDefs[i], value, onError, path, acc))

\* CheckKey that also copies the unknown key's value into the result
CheckKeyCopying(fieldName, value, t, onError, path, acc) ==
    IF ~(\E j \in 1..Len(t.fields) : t.fields[j].name = fieldName)
      THEN After(acc, ReturnAfter(
             CallOnError(onError, pathToArray(path), value,
                 GraphQLError(<<"Field % is not defined by type %.",
                                fieldName, t.name>>, <<>>)),
             SetKey(acc.res, fieldName, GetProp(value, fieldName))))
      ELSE acc

\* the body of `for (const fieldName of Object.keys(inputValue))` for one key
CheckKey(fieldName, value, t, onError, path, acc) ==
    IF ~(\E j \in 1..Len(t.fields) : t.fields[j].name = fieldName)
      THEN After(acc, ReturnAfter(
             CallOnError(onError, pathToArray(path), value,
                 GraphQLError(<<"Field % is not defined by type %.",
                                fieldName, t.name>>, <<>>)),
             acc.res))
      ELSE acc

ForEachKey(keys, i, value, t, onError, path, acc) ==
    IF acc.raised \/ i > Len(keys) THEN acc
    ELSE ForEachKey(keys, i + 1, value, t, onError, path,
                    CheckKey(keys[i], value, t, onError, path, acc))

\* CoerceInputObject that checks the input's keys before the declared fields
CoerceInputObjectKeysFirst(value, t, onError, path) ==
    IF ~isObjectLike(value)
      THEN ReturnAfter(
             CallOnError(onError, pathToArray(path), value,
                 GraphQLError(<<"Expected type % to be an object.", t.name>>, <<>>)),
             Undef)
      ELSE ForEachField(t.fields, 1, value, onError, path,
             ForEachKey(ObjectKeys(value), 1, value, t, onError, path,
                        Returned(Obj(<<>>))))

\* if (isInputObjectType(type)) { ... }
CoerceInputObject(value, t, onError, path) ==
    IF ~isObjectLike(value)
      THEN ReturnAfter(
             CallOnError(onError, pathToArray(path), value,
                 GraphQLError(<<"Expected type % to be an object.", t.name>>, <<>>)),
             Undef)
      ELSE ForEachKey(ObjectKeys(value), 1, value, t, onError, path,
             ForEachField(t.fields, 1, value, onError, path, Returned(Obj(<<>>))))

\* CoerceScalar with `parseResult == null` for `parseResult === undefined`
CoerceScalarNullRejected(value, t, onError, path) ==
    LET called == [Returned(Undef) EXCEPT
                     !.trace = <<ParseEvent(path, t, value)>>]
        p == ParseValue(t.name, value)
    IN  IF p.threw THEN
          IF IsGraphQLError(p.error)
            THEN After(called, ReturnAfter(
                   CallOnError(onError, pathToArray(path), value, p.error), Undef))
            ELSE After(called, ReturnAfter(
                   CallOnError(onError, pathToArray(path), value,
                       GraphQLError(<<"Expected type %. %", t.name, p.error.message>>,
                                    <<p.error>>)),
                   Undef))
        ELSE IF IsNullish(p.value)
          THEN After(called, ReturnAfter(
                 CallOnError(onError, pathToArray(path), value,
                     GraphQLError(<<"Expected type %.", t.name>>, <<>>)),
                 p.value))
        ELSE After(called, Returned(p.value))

\* if (isScalarType(type)) { ... }
CoerceScalar(value, t, onError, path) ==
    LET called == [Returned(Undef) EXCEPT
                     !.trace = <<ParseEvent(path, t, value)>>]
        p == ParseValue(t.name, value)
    IN  IF p.threw THEN
          IF IsGraphQLError(p.error)
            THEN After(called, ReturnAfter(
                   CallOnError(onError, pathToArray(path), value, p.error), Undef))
            ELSE After(called, ReturnAfter(
                   CallOnError(onError, pathToArray(path), value,
                       GraphQLError(<<"Expected type %. %", t.name, p.error.message>>,
                                    <<p.error>>)),
                   Undef))
        ELSE IF p.value = Undef
          THEN After(called, ReturnAfter(
                 CallOnError(onError, pathToArray(path), value,
                     GraphQLError(<<"Expected type %.", t.name>>, <<>>)),
                 p.value))
        ELSE After(called, Returned(p.value))

\* if (isEnumType(type)) { ... }
CoerceEnum(value, t, onError, path) ==
    IF value.k = "string" /\ \E i \in 1..Len(t.values) : t.values[i].name = value.s
      THEN Returned(t.values[CHOOSE i \in 1..Len(t.values) :
                               t.values[i].name = value.s].value)
      ELSE ReturnAfter(
             CallOnError(onError, pathToArray(path), value,
                 GraphQLError(<<"Expected type %.", t.name>>, <<>>)),
             Undef)

coerceInputValueImpl(value, t, onError, path) ==
    LET entered == [Returned(Undef) EXCEPT
                      !.trace = <<EnterEvent(path, t, value)>>]
        o == After(entered,
               IF isNonNullType(t) THEN CoerceNonNull(value, t, onError, path)
               ELSE IF IsNullish(value) THEN CoerceNull(value, t, onError, path)
               ELSE IF isListType(t) THEN CoerceList(value, t, onError, path)
               ELSE IF isInputObjectType(t)
                 THEN CoerceInputObject(value, t, onError, path)
               ELSE IF isScalarType(t) THEN CoerceScalar(value, t, onError, path)
               ELSE CoerceEnum(value, t, onError, path))
    IN  IF o.raised THEN o
        ELSE [o EXCEPT !.trace = Append(@, ReturnEvent(path, t, o.res))]

\* coerceInputValue(inputValue, type, onError = defaultOnError)
coerceInputValue(value, t, onError) == coerceInputValueImpl(value, t, onError, <<>>)

(***************************************************************************)
(* The explored schema.                                                    *)
(***************************************************************************)
GraphQLInt == GraphQLScalarType("Int")

\* BLUE's internal value is not its name
Color == GraphQLEnumType("Color",
            <<EnumValue("RED", Str("RED")), EnumValue("BLUE", Num(1))>>)

Tone == GraphQLEnumType("Tone", <<EnumValue("RED", Str("RED"))>>)

Point == GraphQLInputObjectType("Point",
            <<InputField("y", GraphQLNonNull(GraphQLInt), Undef),
              InputField("x", GraphQLInt, Num(1)),
              InputField("z", GraphQLList(GraphQLInt), Undef)>>)

Pref == GraphQLInputObjectType("Pref",
            <<InputField("x", GraphQLNonNull(Tone), Str("RED"))>>)

Outer == GraphQLInputObjectType("Outer",
            <<InputField("z", GraphQLNonNull(Point), Undef),
              InputField("y", Color, Num(1))>>)

NamedTypes == {GraphQLInt, Color, Tone, Point, Pref, Outer}

RECURSIVE TypesUpTo(_)
\* the named types under at most d wrappers; NonNull never wraps NonNull
TypesUpTo(d) ==
    IF d = 0 THEN NamedTypes
    ELSE LET inner == TypesUpTo(d - 1)
         IN  inner \cup {GraphQLList(t) : t \in inner}
                   \cup {GraphQLNonNull(t) : t \in {u \in inner : ~isNonNullType(u)}}

Types == TypesUpTo(MaxWrap)

(***************************************************************************)
(* The explored input values.                                              *)
(***************************************************************************)
SeqsUpTo(S, n) == UNION {[1..m -> S] : m \in 0..n}

Leaves == {Undef, Null, Num(1), Str("1"), Str("nil"), Str("gql"), Str("err"),
           Str("RED"), Str("BLUE")}

\* what an array element or an object entry may hold
Parts == {Undef, Null, Num(1), Str("RED"),
          Arr(<<Num(1), Null>>),
          Obj(<<Entry("y", Num(1))>>),
          Obj(<<Entry("x", Str("RED")), Entry("z", Null)>>)}

Keys == {"x", "y", "z"}

Arrays == {Arr(items) : items \in SeqsUpTo(Parts, MaxLen)}

KeyLists == {ks \in SeqsUpTo(Keys, MaxKeys) :
               \A i, j \in 1..Len(ks) : ks[i] = ks[j] => i = j}

Objects == UNION {{Obj([i \in 1..Len(ks) |-> Entry(ks[i], vs[i])]) :
                     vs \in [1..Len(ks) -> Parts]} : ks \in KeyLists}

Values == Leaves \cup Arrays \cup Objects

(***************************************************************************)
(* The calls.  A caller coerces inputValue against type with a collecting  *)
(* callback, then without a callback, and then coerces the collected       *)
(* result again when the first call reported nothing.                      *)
(***************************************************************************)
NotRun == Returned(Undef)

Init ==
    /\ inputValue \in Values
    /\ type \in Types
    /\ pc = "start"
    /\ collected = NotRun
    /\ defaulted = NotRun
    /\ recoerced = NotRun

CallCollecting ==
    /\ pc = "start"
    /\ collected' = coerceInputValue(inputValue, type, "collect")
    /\ pc' = "collected"
    /\ UNCHANGED <<inputValue, type, defaulted, recoerced>>

CallDefault ==
    /\ pc = "collected"
    /\ defaulted' = coerceInputValue(inputValue, type, "defaultOnError")
    /\ pc' = "defaulted"
    /\ UNCHANGED <<inputValue, type, collected, recoerced>>

CallAgain ==
    /\ pc = "defaulted"
    /\ collected.errs = <<>>
    /\ recoerced' = coerceInputValue(collected.res, type, "collect")
    /\ pc' = "recoerced"
    /\ UNCHANGED <<inputValue, type, collected, defaulted>>

Next == CallCollecting \/ CallDefault \/ CallAgain

Spec == Init /\ [][Next]_vars

(***************************************************************************)
(* Reading a trace.  Within one call tree a path is visited once and the   *)
(* calls at one path have pairwise different types, so a call is known by  *)
(* its path and type.                                                      *)
(***************************************************************************)
\* the outcome of the call made last
Latest ==
    IF pc = "collected" THEN collected
    ELSE IF pc = "defaulted" THEN defaulted
    ELSE IF pc = "recoerced" THEN recoerced
    ELSE NotRun

IsReturnOf(tr, j, i) ==
    tr[j].op = "return" /\ tr[j].at = tr[i].at /\ tr[j].type = tr[i].type

HasReturn(tr, i) == \E j \in (i + 1)..Len(tr) : IsReturnOf(tr, j, i)

ReturnOf(tr, i) == CHOOSE j \in (i + 1)..Len(tr) : IsReturnOf(tr, j, i)

\* the last event of the call entered at i
SpanEnd(tr, i) == IF HasReturn(tr, i) THEN ReturnOf(tr, i) ELSE Len(tr)

IsPrefix(p, q) == Len(p) <= Len(q) /\ SubSeq(q, 1, Len(p)) = p

IsCallOn(e, kind) == e.op = "coerce" /\ e.type.kind = kind

(***************************************************************************)
(* C1.  NonNull(T): a null or absent value makes exactly one onError call, *)
(* with the call's own path and the value, and the call returns absent     *)
(* without a call for T; any other value is handed to T at the same path,  *)
(* and the call returns what T's call returns, adding no event of its own. *)
(***************************************************************************)
NonNullCallOK(o, i) ==
    LET tr == o.trace
        e == tr[i]
    IN  IF IsNullish(e.value) THEN
          /\ i < Len(tr)
          /\ tr[i + 1] = OnErrorEvent(e.at, e.value,
                 GraphQLError(<<"Expected non-nullable type % not to be null.",
                                inspect(e.type)>>, <<>>))
          /\ IF o.raised THEN i + 1 = Len(tr)
             ELSE tr[i + 2] = ReturnEvent(e.at, e.type, Undef)
        ELSE
          /\ i < Len(tr)
          /\ tr[i + 1] = EnterEvent(e.at, e.type.ofType, e.value)
          /\ \A j \in (i + 2)..Len(tr) :
               IsReturnOf(tr, j, i + 1) =>
                 j < Len(tr) /\ tr[j + 1] = ReturnEvent(e.at, e.type, tr[j].value)
          /\ \A j \in (i + 2)..Len(tr) :
               IsReturnOf(tr, j, i) => IsReturnOf(tr, j - 1, i + 1)

C1_NonNull ==
    \A i \in 1..Len(Latest.trace) :
        IsCallOn(Latest.trace[i], "NonNull") => NonNullCallOK(Latest, i)

\* Outer's required field z holds null: one error at path [z], z is absent
C1_Witness ==
    /\ pc = "collected"
    /\ type = Outer
    /\ inputValue = Obj(<<Entry("z", Null)>>)
    /\ collected.res = Obj(<<Entry("z", Undef), Entry("y", Num(1))>>)
    /\ Len(collected.errs) = 1
    /\ collected.errs[1].path = <<Str("z")>>
    /\ collected.errs[1].invalidValue = Null

(***************************************************************************)
(* C2.  A type that is not NonNull returns the value null for null and for *)
(* absent at once: no onError, no parseValue, no list, no field read.      *)
(***************************************************************************)
C2_NullPassthrough ==
    LET tr == Latest.trace
    IN  \A i \in 1..Len(tr) :
          (tr[i].op = "coerce" /\ ~isNonNullType(tr[i].type) /\ IsNullish(tr[i].value))
            => /\ i < Len(tr)
               /\ tr[i + 1] = ReturnEvent(tr[i].at, tr[i].type, Null)

\* an absent and a null element of a list of input objects both come out null
C2_Witness ==
    /\ pc = "collected"
    /\ type = GraphQLList(Pref)
    /\ inputValue = Arr(<<Undef, Null>>)
    /\ collected.res = Arr(<<Null, Null>>)
    /\ collected.errs = <<>>
    /\ Len(collected.trace) = 6

(***************************************************************************)
(* C3.  Under a callback that returns, a sequence of n elements against    *)
(* List(item) makes n calls for item, element k at the list's path         *)
(* extended by k-1, one after the other in input order, and returns the n  *)
(* results in that order, an absent result included.                       *)
(***************************************************************************)
IsItemCall(tr, e, i, k) ==
    tr[e] = EnterEvent(Append(tr[i].at, Num(k - 1)), tr[i].type.ofType,
                       tr[i].value.items[k])

ItemCall(tr, i, k) == CHOOSE e \in (i + 1)..Len(tr) : IsItemCall(tr, e, i, k)

ListCallOK(tr, i) ==
    LET n == Len(tr[i].value.items)
        j == ReturnOf(tr, i)
    IN  /\ HasReturn(tr, i)
        /\ tr[j].value.k = "array"
        /\ Len(tr[j].value.items) = n
        /\ \A k \in 1..n :
             /\ \E e \in (i + 1)..j : IsItemCall(tr, e, i, k)
             /\ HasReturn(tr, ItemCall(tr, i, k))
             /\ tr[j].value.items[k] = tr[ReturnOf(tr, ItemCall(tr, i, k))].value
             /\ ItemCall(tr, i, k) =
                  IF k = 1 THEN i + 1 ELSE ReturnOf(tr, ItemCall(tr, i, k - 1)) + 1
        /\ j = IF n = 0 THEN i + 1 ELSE ReturnOf(tr, ItemCall(tr, i, n)) + 1

C3_ListElements ==
    LET tr == Latest.trace
    IN  ~Latest.raised =>
          \A i \in 1..Len(tr) :
            (IsCallOn(tr[i], "List") /\ isCollection(tr[i].value))
              => ListCallOK(tr, i)

\* [1, null] against [Int!]: [1, absent] and one error, at path [1]
C3_Witness ==
    /\ pc = "collected"
    /\ type = GraphQLList(GraphQLNonNull(GraphQLInt))
    /\ inputValue = Arr(<<Num(1), Null>>)
    /\ collected.res = Arr(<<Num(1), Undef>>)
    /\ Len(collected.errs) = 1
    /\ collected.errs[1].path = <<Num(1)>>

(***************************************************************************)
(* C4.  A value that is neither null nor a sequence, against List(item),   *)
(* is handed to item at the list's own path, and the list returns the      *)
(* one-element sequence of item's result.                                  *)
(***************************************************************************)
ListOfOneOK(tr, i) ==
    /\ i < Len(tr)
    /\ tr[i + 1] = EnterEvent(tr[i].at, tr[i].type.ofType, tr[i].value)
    /\ \A j \in (i + 2)..Len(tr) :
         IsReturnOf(tr, j, i + 1) =>
           /\ j < Len(tr)
           /\ tr[j + 1] = ReturnEvent(tr[i].at, tr[i].type, Arr(<<tr[j].value>>))
    /\ \A j \in (i + 2)..Len(tr) :
         IsReturnOf(tr, j, i) => IsReturnOf(tr, j - 1, i + 1)

C4_ListOfOne ==
    LET tr == Latest.trace
    IN  \A i \in 1..Len(tr) :
          (IsCallOn(tr[i], "List") /\ ~IsNullish(tr[i].value)
             /\ ~isCollection(tr[i].value))
            => ListOfOneOK(tr, i)

\* ["RED"] against [[Int]]: element 0 becomes a list of one, its error is at [0]
C4_Witness ==
    /\ pc = "collected"
    /\ type = GraphQLList(GraphQLList(GraphQLInt))
    /\ inputValue = Arr(<<Str("RED")>>)
    /\ collected.res = Arr(<<Arr(<<Undef>>)>>)
    /\ Len(collected.errs) = 1
    /\ collected.errs[1].path = <<Num(0)>>
    /\ collected.errs[1].invalidValue = Str("RED")

(***************************************************************************)
(* Reading the events of an InputObject call entered at i.                 *)
(***************************************************************************)
IsObjectCall(e) ==
    IsCallOn(e, "InputObject") /\ ~IsNullish(e.value) /\ isObjectLike(e.value)

DeclaredNames(t) == {t.fields[f].name : f \in 1..Len(t.fields)}

HasKey(v, name) == \E q \in 1..Len(ObjectKeys(v)) : ObjectKeys(v)[q] = name

MissingError(field) ==
    GraphQLError(<<"Field % of required type % was not provided.",
                   field.name, inspect(field.type)>>, <<>>)

UnknownError(fieldName, t) ==
    GraphQLError(<<"Field % is not defined by type %.", fieldName, t.name>>, <<>>)

\* the onError calls of the call entered at i that equal event ev
Reports(tr, i, ev) == {k \in (i + 1)..SpanEnd(tr, i) : tr[k] = ev}

\* the events of the call entered at i that belong to declared field `name`:
\* anything at a path through that field
UnderField(tr, i, name) ==
    {k \in (i + 1)..SpanEnd(tr, i) :
        /\ tr[k].op # "field"
        /\ IsPrefix(Append(tr[i].at, Str(name)), tr[k].at)}

(***************************************************************************)
(* C5.  An InputObject call, for each declared field it reaches whose      *)
(* value is absent from the input: with a declared default, the result     *)
(* holds the default under the field's name and nothing is reported for    *)
(* the field, NonNull or not; else with a NonNull type, exactly one        *)
(* required-field error is reported and the result lacks the key; else     *)
(* nothing is reported and the result lacks the key.                       *)
(***************************************************************************)
AbsentFieldOK(tr, i, field) ==
    LET e == tr[i]
        required == Reports(tr, i, OnErrorEvent(e.at, e.value, MissingError(field)))
        returned == HasReturn(tr, i)
        result == tr[ReturnOf(tr, i)].value
    IN  /\ UnderField(tr, i, field.name) = {}
        /\ IF field.defaultValue # Undef THEN
             /\ required = {}
             /\ returned => /\ HasKey(result, field.name)
                            /\ GetProp(result, field.name) = field.defaultValue
           ELSE IF isNonNullType(field.type) THEN
             /\ Cardinality(required) = 1
             /\ \A k \in required : tr[k - 1] = FieldEvent(e.at, field.name)
             /\ returned => ~HasKey(result, field.name)
           ELSE
             /\ required = {}
             /\ returned => ~HasKey(result, field.name)

C5_AbsentFields ==
    LET tr == Latest.trace
    IN  \A i \in 1..Len(tr) :
          IsObjectCall(tr[i]) =>
            \A f \in 1..Len(tr[i].type.fields) :
              LET field == tr[i].type.fields[f]
                  reached == \E k \in (i + 1)..SpanEnd(tr, i) :
                               tr[k] = FieldEvent(tr[i].at, field.name)
              IN  (GetProp(tr[i].value, field.name) = Undef
                     /\ (reached \/ ~Latest.raised))
                    => reached /\ AbsentFieldOK(tr, i, field)

\* {x: undefined} against Point: y is required, x has a default, z has neither
C5_Witness ==
    /\ pc = "collected"
    /\ type = Point
    /\ inputValue = Obj(<<Entry("x", Undef)>>)
    /\ collected.res = Obj(<<Entry("x", Num(1))>>)
    /\ Len(collected.errs) = 1
    /\ collected.errs[1] = ErrorReport(<<>>, inputValue, MissingError(Point.fields[1]))

(***************************************************************************)
(* C6.  Under a callback that returns, an InputObject call reports each    *)
(* key of the input that is not a declared field exactly once, at the      *)
(* object's path with the whole input as invalidValue, reports no declared *)
(* key, and returns a mapping whose keys are declared field names.         *)
(***************************************************************************)
UnknownKeysOK(tr, i) ==
    LET e == tr[i]
        keys == ObjectKeys(e.value)
        unknownReports ==
            {k \in (i + 1)..SpanEnd(tr, i) :
                /\ tr[k].op = "onError"
                /\ tr[k].at = e.at
                /\ Head(tr[k].error.message) = "Field % is not defined by type %."}
        result == tr[ReturnOf(tr, i)].value
    IN  /\ HasReturn(tr, i)
        /\ \A q \in 1..Len(keys) :
             Cardinality(Reports(tr, i,
                 OnErrorEvent(e.at, e.value, UnknownError(keys[q], e.type)))) =
               IF keys[q] \in DeclaredNames(e.type) THEN 0 ELSE 1
        /\ Cardinality(unknownReports) =
             Cardinality({q \in 1..Len(keys) : keys[q] \notin DeclaredNames(e.type)})
        /\ result.k = "object"
        /\ \A q \in 1..Len(result.entries) :
             result.entries[q].key \in DeclaredNames(e.type)

C6_UnknownKeys ==
    LET tr == Latest.trace
    IN  ~Latest.raised =>
          \A i \in 1..Len(tr) : IsObjectCall(tr[i]) => UnknownKeysOK(tr, i)

\* {z: 1, x: "RED"} against Pref: z is reported once and not copied
C6_Witness ==
    /\ pc = "collected"
    /\ type = Pref
    /\ inputValue = Obj(<<Entry("z", Num(1)), Entry("x", Str("RED"))>>)
    /\ collected.res = Obj(<<Entry("x", Str("RED"))>>)
    /\ collected.errs = <<ErrorReport(<<>>, inputValue, UnknownError("z", Pref))>>

(***************************************************************************)
(* C7.  onError is called in depth-first discovery order.  Within an       *)
(* InputObject call the reports of declared fields (a missing required     *)
(* field, or anything under the field's path) come in declaration order    *)
(* and before every unknown-key report of that object, and those come in   *)
(* the input's key order; within a List call the reports of element k come *)
(* before those of element k+1.  The callback receives the reports in the  *)
(* order of the calls.                                                     *)
(***************************************************************************)
OnErrorCalls(tr, i) == {k \in (i + 1)..SpanEnd(tr, i) : tr[k].op = "onError"}

FieldIndex(t, name) == CHOOSE f \in 1..Len(t.fields) : t.fields[f].name = name

KeyIndex(v, name) == CHOOSE q \in 1..Len(ObjectKeys(v)) : ObjectKeys(v)[q] = name

\* <<phase, position>> of an onError call made within the InputObject call e:
\* phase 1 the field loop, phase 2 the key loop, phase 0 neither
ObjectRank(e, r) ==
    LET msg == r.error.message
    IN  IF r.at = e.at /\ Head(msg) = "Field % is not defined by type %."
             /\ HasKey(e.value, msg[2])
          THEN <<2, KeyIndex(e.value, msg[2])>>
        ELSE IF r.at = e.at /\ Head(msg) = "Field % of required type % was not provided."
             /\ msg[2] \in DeclaredNames(e.type)
          THEN <<1, FieldIndex(e.type, msg[2])>>
        ELSE IF Len(r.at) > Len(e.at) /\ IsPrefix(e.at, r.at)
             /\ r.at[Len(e.at) + 1].k = "string"
             /\ r.at[Len(e.at) + 1].s \in DeclaredNames(e.type)
          THEN <<1, FieldIndex(e.type, r.at[Len(e.at) + 1].s)>>
        ELSE <<0, 0>>

ObjectOrderOK(tr, i) ==
    /\ \A a \in OnErrorCalls(tr, i) : ObjectRank(tr[i], tr[a])[1] # 0
    /\ \A a, b \in OnErrorCalls(tr, i) :
         a < b =>
           LET ra == ObjectRank(tr[i], tr[a])
               rb == ObjectRank(tr[i], tr[b])
           IN  \/ ra[1] < rb[1]
               \/ ra[1] = 1 /\ rb[1] = 1 /\ ra[2] <= rb[2]
               \/ ra[1] = 2 /\ rb[1] = 2 /\ ra[2] < rb[2]

ListOrderOK(tr, i) ==
    LET d == Len(tr[i].at) + 1
    IN  /\ \A a \in OnErrorCalls(tr, i) :
             /\ Len(tr[a].at) >= d
             /\ IsPrefix(tr[i].at, tr[a].at)
             /\ tr[a].at[d].k = "number"
        /\ \A a, b \in OnErrorCalls(tr, i) :
             a < b => tr[a].at[d].n <= tr[b].at[d].n

\* the reports handed to the callback, in the order of its invocations
ReportsInCallOrder(o) ==
    LET calls == SelectSeq(o.trace, LAMBDA ev : ev.op = "onError")
    IN  /\ Len(o.errs) = Len(calls)
        /\ \A n \in 1..Len(calls) :
             /\ o.errs[n].path = calls[n].at
             /\ o.errs[n].invalidValue = calls[n].value
             /\ [o.errs[n].error EXCEPT !.prefix = <<>>] = calls[n].error

C7_ErrorOrder ==
    LET tr == Latest.trace
    IN  /\ ReportsInCallOrder(Latest)
        /\ \A i \in 1..Len(tr) :
             /\ IsObjectCall(tr[i]) => ObjectOrderOK(tr, i)
             /\ (IsCallOn(tr[i], "List") /\ isCollection(tr[i].value))
                  => ListOrderOK(tr, i)

\* Outer given the unknown key x first: the reports of field z (a missing
\* required y, a rejected x) come first, the unknown key x of the root last
C7_Witness ==
    /\ pc = "collected"
    /\ type = Outer
    /\ inputValue = Obj(<<Entry("x", Num(1)),
                          Entry("z", Obj(<<Entry("x", Str("RED")),
                                           Entry("z", Null)>>))>>)
    /\ Len(collected.errs) = 3
    /\ collected.errs[1].path = <<Str("z")>>
    /\ collected.errs[2].path = <<Str("z"), Str("x")>>
    /\ collected.errs[3] = ErrorReport(<<>>, inputValue, UnknownError("x", Outer))

(***************************************************************************)
(* C8.  Without an onError callback, an input that reports at least one    *)
(* error under a collecting callback returns nothing: the first of those   *)
(* errors is raised, with its steps up to that onError call and none       *)
(* after; an input that reports none returns the same value.               *)
(***************************************************************************)
FirstOnError(tr) == CHOOSE k \in 1..Len(tr) :
                       /\ tr[k].op = "onError"
                       /\ \A m \in 1..(k - 1) : tr[m].op # "onError"

C8_FailFast ==
    pc = "defaulted" =>
      IF collected.errs # <<>> THEN
        /\ defaulted.raised
        /\ defaulted.res = Abandoned
        /\ Len(defaulted.errs) = 1
        /\ defaulted.errs[1].path = collected.errs[1].path
        /\ defaulted.errs[1].invalidValue = collected.errs[1].invalidValue
        /\ [defaulted.errs[1].error EXCEPT !.prefix = <<>>] = collected.errs[1].error
        /\ defaulted.errs[1].error.prefix # <<>>
        /\ defaulted.trace =
             SubSeq(collected.trace, 1, FirstOnError(collected.trace))
      ELSE
        /\ ~defaulted.raised
        /\ defaulted.res = collected.res
        /\ defaulted.errs = <<>>

\* three errors when collected, the first of them raised by default
C8_Witness ==
    /\ pc = "defaulted"
    /\ type = Outer
    /\ inputValue = Obj(<<Entry("x", Num(1)),
                          Entry("z", Obj(<<Entry("x", Str("RED")),
                                           Entry("z", Null)>>))>>)
    /\ Len(collected.errs) = 3
    /\ defaulted.raised
    /\ Len(defaulted.errs) = 1
    /\ defaulted.errs[1].path = <<Str("z")>>
    /\ Len(defaulted.trace) < Len(collected.trace)

(***************************************************************************)
(* C9.  A Scalar call on a value that is not null calls parseValue once.   *)
(* If parseValue throws, one error is reported (the thrown GraphQLError    *)
(* itself, or a new GraphQLError with the thrown error as its original     *)
(* error) and the call returns absent; if parseValue returns undefined,    *)
(* one error is reported and the call returns absent; otherwise, null      *)
(* included, nothing is reported and the call returns the parsed value.    *)
(***************************************************************************)
ScalarCallOK(o, i) ==
    LET tr == o.trace
        e == tr[i]
        p == ParseValue(e.type.name, e.value)
    IN  /\ i + 1 < Len(tr)
        /\ tr[i + 1] = ParseEvent(e.at, e.type, e.value)
        /\ IF p.threw \/ p.value = Undef THEN
             /\ tr[i + 2].op = "onError"
             /\ tr[i + 2].at = e.at
             /\ tr[i + 2].value = e.value
             /\ IF p.threw /\ IsGraphQLError(p.error)
                  THEN tr[i + 2].error = p.error
                ELSE IF p.threw
                  THEN /\ IsGraphQLError(tr[i + 2].error)
                       /\ tr[i + 2].error.originalError = <<p.error>>
                ELSE tr[i + 2].error =
                       GraphQLError(<<"Expected type %.", e.type.name>>, <<>>)
             /\ IF o.raised THEN i + 2 = Len(tr)
                ELSE tr[i + 3] = ReturnEvent(e.at, e.type, Undef)
           ELSE tr[i + 2] = ReturnEvent(e.at, e.type, p.value)

C9_ScalarTriState ==
    \A i \in 1..Len(Latest.trace) :
        (IsCallOn(Latest.trace[i], "Scalar") /\ ~IsNullish(Latest.trace[i].value))
          => ScalarCallOK(Latest, i)

\* parseValue("nil") returns null: no error, and the result is null
C9_Witness ==
    /\ pc = "collected"
    /\ type = GraphQLList(GraphQLInt)
    /\ inputValue = Str("nil")
    /\ collected.res = Arr(<<Null>>)
    /\ collected.errs = <<>>
    /\ \E k \in 1..Len(collected.trace) : collected.trace[k].op = "parseValue"

(***************************************************************************)
(* C10.  Idempotence as claimed: whenever the scalars round-trip through   *)
(* parseValue, a result r that was coerced with zero errors coerces again, *)
(* against the same type, with zero errors and to a value equal to r, for  *)
(* every type shape.                                                       *)
(***************************************************************************)
\* parseValue(parseValue(x)) == parseValue(x) wherever parseValue(x) returns
ScalarsRoundTrip ==
    \A x \in Values :
        LET once == ParseValue("Int", x)
        IN  ~once.threw => ParseValue("Int", once.value) = once

C10_Idempotence ==
    (pc = "recoerced" /\ ScalarsRoundTrip)
      => recoerced.errs = <<>> /\ recoerced.res = collected.res

RECURSIVE SelfCoercing(_)
\* every Enum value of t has its own name as payload, and every declared
\* default of t coerces, against its field's type, to itself with no error
SelfCoercing(t) ==
    IF isNonNullType(t) \/ isListType(t) THEN SelfCoercing(t.ofType)
    ELSE IF isEnumType(t)
      THEN \A v \in 1..Len(t.values) : t.values[v].value = Str(t.values[v].name)
    ELSE IF isInputObjectType(t)
      THEN \A f \in 1..Len(t.fields) :
             /\ SelfCoercing(t.fields[f].type)
             /\ \/ t.fields[f].defaultValue = Undef
                \/ LET o == coerceInputValue(t.fields[f].defaultValue,
                                             t.fields[f].type, "collect")
                   IN  o.errs = <<>> /\ o.res = t.fields[f].defaultValue
    ELSE TRUE

\* no call on a NonNull type returned null (a parseValue's null for a value
\* that was not null)
NoNullUnderNonNull(o) ==
    \A k \in 1..Len(o.trace) :
        (o.trace[k].op = "return" /\ isNonNullType(o.trace[k].type))
          => o.trace[k].value # Null

(***************************************************************************)
(* C10 as amended: the same, for the types whose Enum payloads are their   *)
(* names and whose defaults coerce to themselves, and the results that     *)
(* hold no null at a NonNull position.                                     *)
(***************************************************************************)
C10_IdempotenceAmended ==
    (/\ pc = "recoerced"
     /\ ScalarsRoundTrip
     /\ SelfCoercing(type)
     /\ NoNullUnderNonNull(collected))
      => recoerced.errs = <<>> /\ recoerced.res = collected.res

\* {x: undefined} against [Pref]: a list of one, filled in from the default,
\* whose enum payload is its name; the result coerces to itself
C10_Witness ==
    /\ pc = "recoerced"
    /\ type = GraphQLList(Pref)
    /\ inputValue = Obj(<<Entry("x", Undef)>>)
    /\ collected.res = Arr(<<Obj(<<Entry("x", Str("RED"))>>)>>)
    /\ recoerced.res = collected.res
    /\ recoerced.errs = <<>>
    /\ Len(recoerced.trace) > Len(collected.trace)

=============================================================================
